---- MODULE Spec2Model ----
(***************************************************************************)
(* A model of scripts/ev.py, the NBA player-prop +EV scanner: the odds     *)
(* conversions, the fair-value and consensus computations, the Kelly       *)
(* sizer, process_player_props (one event's scan) and scan_for_ev (the     *)
(* polling loop).                                                          *)
(*                                                                         *)
(* Numbers.  Python floats are modelled as exact rationals <<n, d>> in     *)
(* lowest terms with d > 0; the integer prices of the provider are         *)
(* integers.  Floating-point rounding error is therefore outside the       *)
(* model; int(round(x)) is modelled as round-half-to-even of the exact     *)
(* value.                                                                  *)
(*                                                                         *)
(* Strings.  An outcome's description is modelled as a sequence of words   *)
(* (<<"X">>, <<"X", "Over", "Under">>): str.startswith is the prefix       *)
(* relation on word sequences and  'Over' in s  is membership of a word.   *)
(***************************************************************************)
EXTENDS Integers, Sequences, FiniteSets, TLC

VARIABLES
    \* ---- one call of a pure function (specification SpecCalc)
    call,           \* the function called and its arguments
    ret,            \* Pending, or what the call returned or raised
    \* ---- process_player_props (specification SpecProps)
    props_data,     \* the event's odds: [bookmakers, commence_time]
    event_id,
    pinnacle_odds_history,  \* the module-level dict: event id -> dict
    pc,             \* where the call stands: "idle", "call", "markets",
                    \* "outcomes", "books", "finally", "done"
    run,            \* how many times the event has been processed
    use_consensus,
    reference_odds, \* the bookmaker the outcomes are read from
    mi, oi, bi,     \* the market, outcome and book the three loops are at
    description,    \* [bound, v]: the local is unbound until line 589 runs
    ref,            \* the locals of the current outcome (lines 600-672)
    stats,          \* the counters of lines 521-532
    opportunities,  \* the comparisons accepted at line 739, in order
    alerts,         \* the embeds channel.send delivered, in order
    outcome_log,    \* how the body of the outcome loop ended, per outcome
    book_log,       \* how the body of the book loop ended, per book
    escaped,        \* an exception reached the outer handler (line 833)
    \* ---- scan_for_ev (specification SpecScan)
    scan_pc,        \* "idle", "top" (the head of the while loop), "events"
    remaining_requests,
    events,         \* the list the events fetch returned
    ei,             \* how many of its events the for loop has been through
    fetch,          \* the last provider fetch issued: its kind and
                    \* remaining_requests at that moment
    slept,          \* the duration of the last asyncio.sleep, in seconds
    uncounted,      \* the fetches issued since remaining_requests was last
                    \* set to CALLS_PER_MONTH that did not decrement it
    tasks           \* the scan_for_ev tasks on_ready has created

scanVars == <<scan_pc, remaining_requests, events, ei, fetch, slept, uncounted, tasks>>
calcVars == <<call, ret>>
propsVars == <<props_data, event_id, pinnacle_odds_history, pc, run, use_consensus,
               reference_odds, mi, oi, bi, description, ref, stats, opportunities,
               alerts, outcome_log, book_log, escaped>>
vars == <<calcVars, propsVars, scanVars>>

---------------------------------------------------------------------------
(* Exact rational arithmetic.                                              *)

Abs(n) == IF n < 0 THEN -n ELSE n

RECURSIVE GCD(_, _)
GCD(a, b) == IF b = 0 THEN a ELSE GCD(b, a % b)

Norm(n, d) ==
    LET g == GCD(Abs(n), Abs(d))
        s == IF d < 0 THEN -1 ELSE 1
    IN  <<(s * n) \div g, (s * d) \div g>>

R(n) == <<n, 1>>
RNeg(a) == <<-a[1], a[2]>>
RAdd(a, b) ==
    LET g == GCD(a[2], b[2])
    IN  Norm(a[1] * (b[2] \div g) + b[1] * (a[2] \div g), (a[2] \div g) * b[2])
RSub(a, b) == RAdd(a, RNeg(b))
RMul(a, b) ==
    LET g1 == GCD(Abs(a[1]), b[2])
        g2 == GCD(Abs(b[1]), a[2])
    IN  Norm((a[1] \div g1) * (b[1] \div g2), (a[2] \div g2) * (b[2] \div g1))
RInv(a) == IF a[1] < 0 THEN <<-a[2], -a[1]>> ELSE <<a[2], a[1]>>
RDiv(a, b) == RMul(a, RInv(b))
RLt(a, b) ==
    LET g == GCD(a[2], b[2])
    IN  a[1] * (b[2] \div g) < b[1] * (a[2] \div g)
RLe(a, b) == ~RLt(b, a)
RAbs(a) == <<Abs(a[1]), a[2]>>
RMin(a, b) == IF RLt(b, a) THEN b ELSE a
RMax(a, b) == IF RLt(a, b) THEN b ELSE a
RIsZero(a) == a[1] = 0
RPos(a) == a[1] > 0
RIsNeg(a) == a[1] < 0

\* int(round(x)): Python 3 rounds a tie to the even neighbour.
RRound(a) ==
    LET fl  == a[1] \div a[2]
        rem == a[1] - fl * a[2]
    IN  IF 2 * rem < a[2] THEN fl
        ELSE IF 2 * rem > a[2] THEN fl + 1
        ELSE IF fl % 2 = 0 THEN fl ELSE fl + 1

---------------------------------------------------------------------------
(* Configuration (ev.py, lines 23-61).                                     *)

KELLY_FRACTION == <<1, 4>>
WEIGHTED_BOOKS ==
    [betonlineag |-> <<2, 5>>, fanduel |-> <<3, 10>>, draftkings |-> <<3, 10>>,
     betmgm |-> <<3, 10>>, betrivers |-> <<1, 5>>, prophetx |-> <<1, 5>>,
     underdog |-> <<1, 5>>, fliff |-> <<1, 5>>]
MIN_BOOKS_FOR_CONSENSUS == 2
MAX_PROB_DIFF == <<1, 10>>
MIN_EDGE_THRESHOLD == <<1, 50>>
MAX_EDGE_THRESHOLD == <<1, 5>>
CALLS_PER_MONTH == 500
BANKROLL == <<1000, 1>>
MIN_UNIT_PCT == <<1, 100>>
MAX_UNIT_PCT == <<3, 100>>
BASE_UNIT == RMul(BANKROLL, MIN_UNIT_PCT)
MAX_ALERTS_PER_EVENT == 10
MAX_EDGE_CALC == <<3, 20>>

---------------------------------------------------------------------------
(* The pure functions.  American odds arrive as rationals (the provider's  *)
(* integer price p is R(p)).  Where Python raises (a division by zero) the *)
(* _Raises predicate of the function says so; the callers test it before   *)
(* they use the value.                                                     *)

\* american_to_decimal(0) takes the else branch and divides by zero.
american_to_decimal_Raises(odds) == RIsZero(odds)

american_to_decimal(odds) ==
    IF RPos(odds) THEN RAdd(R(1), RDiv(odds, R(100)))
    ELSE RSub(R(1), RDiv(R(100), odds))

calculate_implied_probability(odds) ==
    IF RPos(odds) THEN RDiv(R(100), RAdd(odds, R(100)))
    ELSE RDiv(RAbs(odds), RAdd(RAbs(odds), R(100)))

\* prob1 + prob2 = 0 only when both prices are 0.
devig_pinnacle_odds_Raises(odds1, odds2) == RIsZero(odds1) /\ RIsZero(odds2)

devig_pinnacle_odds(odds1, odds2, pinnacle_hold) ==
    LET prob1 == calculate_implied_probability(odds1)
        prob2 == calculate_implied_probability(odds2)
        total_prob == RAdd(prob1, prob2)
        true_prob1 == RDiv(prob1, total_prob)
        true_prob2 == RDiv(prob2, total_prob)
    IN  <<true_prob1, true_prob2>>

calculate_edge_Uncapped(bet_odds, true_prob) ==
    RSub(RMul(american_to_decimal(bet_odds), true_prob), R(1))

calculate_edge_Clamped(bet_odds, true_prob) ==
    RMax(RNeg(MAX_EDGE_CALC),
         RMin(calculate_edge_Uncapped(bet_odds, true_prob), MAX_EDGE_CALC))

calculate_edge(bet_odds, true_prob) ==
    LET decimal_odds == american_to_decimal(bet_odds)
        raw_edge == RSub(RMul(decimal_odds, true_prob), R(1))
    IN  RMin(raw_edge, MAX_EDGE_CALC)

calculate_hold(odds1, odds2) ==
    LET prob1 == calculate_implied_probability(odds1)
        prob2 == calculate_implied_probability(odds2)
        total_probability == RAdd(prob1, prob2)
        hold == RSub(total_probability, R(1))
    IN  RMax(R(0), hold)

kelly_criterion_NoFloor(edge, odds, kelly_fraction) ==
    LET decimal_odds == american_to_decimal(odds)
        p == RAdd(edge, calculate_implied_probability(odds))
        b == RSub(decimal_odds, R(1))
        q == RSub(R(1), p)
        kelly_pct == IF RPos(b) THEN RDiv(RSub(RMul(b, p), q), b) ELSE R(0)
        bet_pct == RMin(MAX_UNIT_PCT, RMul(kelly_pct, kelly_fraction))
        units == RDiv(bet_pct, MIN_UNIT_PCT)
    IN  <<units, RMul(units, BASE_UNIT)>>

kelly_criterion_ImpliedOnly(edge, odds, kelly_fraction) ==
    LET decimal_odds == american_to_decimal(odds)
        p == calculate_implied_probability(odds)
        b == RSub(decimal_odds, R(1))
        q == RSub(R(1), p)
        kelly_pct == IF RPos(b) THEN RDiv(RSub(RMul(b, p), q), b) ELSE R(0)
        bet_pct == RMax(MIN_UNIT_PCT, RMin(MAX_UNIT_PCT, RMul(kelly_pct, kelly_fraction)))
        units == RDiv(bet_pct, MIN_UNIT_PCT)
    IN  <<units, RMul(units, BASE_UNIT)>>

kelly_criterion(edge, odds, kelly_fraction) ==
    LET decimal_odds == american_to_decimal(odds)
        implied_prob == calculate_implied_probability(odds)
        win_prob == RAdd(edge, implied_prob)
        b == RSub(decimal_odds, R(1))
        p == win_prob
        q == RSub(R(1), p)
        kelly_pct == IF RPos(b) THEN RDiv(RSub(RMul(b, p), q), b) ELSE R(0)
        bet_pct0 == RMin(MAX_UNIT_PCT, RMul(kelly_pct, kelly_fraction))
        bet_pct == RMax(MIN_UNIT_PCT, bet_pct0)
        units == RDiv(bet_pct, MIN_UNIT_PCT)
        dollar_amount == RMul(units, BASE_UNIT)
    IN  <<units, dollar_amount>>

is_plus_ev_Closed(edge, min_threshold, max_threshold) ==
    RLe(min_threshold, edge) /\ RLe(edge, max_threshold)

is_plus_ev(edge, min_threshold, max_threshold) ==
    RLt(min_threshold, edge) /\ RLe(edge, max_threshold)

\* The prob_to_american nested in calculate_fair_value: no rounding.
fair_prob_to_american(prob) ==
    IF RLe(<<1, 2>>, prob)
    THEN RDiv(RMul(R(-100), prob), RSub(R(1), prob))
    ELSE RDiv(RMul(R(100), RSub(R(1), prob)), prob)

\* With a price of 0 on one side a fair probability is 0 or 1 and the
\* conversion to odds divides by zero; with 0 on both sides total_prob is 0.
calculate_fair_value_Raises(odds1, odds2) == RIsZero(odds1) \/ RIsZero(odds2)

calculate_fair_value_Unnormalised(odds1, odds2) ==
    LET prob1 == calculate_implied_probability(odds1)
        prob2 == calculate_implied_probability(odds2)
    IN  [fair_prob1 |-> prob1, fair_prob2 |-> prob2,
         fair_odds1 |-> fair_prob_to_american(prob1),
         fair_odds2 |-> fair_prob_to_american(prob2),
         hold |-> RSub(RAdd(prob1, prob2), R(1))]

\* The record holds the returned (fair_odds1, fair_odds2, hold) and the two
\* locals fair_prob1 and fair_prob2 the odds are converted from.
calculate_fair_value(odds1, odds2) ==
    LET prob1 == calculate_implied_probability(odds1)
        prob2 == calculate_implied_probability(odds2)
        hold == RSub(RAdd(prob1, prob2), R(1))
        total_prob == RAdd(prob1, prob2)
        fair_prob1 == RDiv(prob1, total_prob)
        fair_prob2 == RDiv(prob2, total_prob)
    IN  [fair_prob1 |-> fair_prob1, fair_prob2 |-> fair_prob2,
         fair_odds1 |-> fair_prob_to_american(fair_prob1),
         fair_odds2 |-> fair_prob_to_american(fair_prob2),
         hold |-> hold]

calculate_ev_FlatProfit(bet_odds, fair_odds) ==
    LET bet_prob == calculate_implied_probability(bet_odds)
        fair_prob == calculate_implied_probability(fair_odds)
        profit == RAbs(RDiv(bet_odds, R(100)))
        ev == RMul(RSub(RMul(fair_prob, profit), RSub(R(1), fair_prob)), R(100))
        edge == RSub(RMul(RDiv(R(1), bet_prob), fair_prob), R(1))
    IN  <<RMul(edge, R(100)), ev>>

\* Returns (edge_percentage, ev_percentage).
calculate_ev(bet_odds, fair_odds) ==
    LET bet_prob == calculate_implied_probability(bet_odds)
        fair_prob == calculate_implied_probability(fair_odds)
        profit == IF RIsNeg(bet_odds) THEN RAbs(RDiv(R(100), bet_odds))
                  ELSE RDiv(bet_odds, R(100))
        ev == RMul(RSub(RMul(fair_prob, profit), RSub(R(1), fair_prob)), R(100))
        edge == RSub(RMul(RDiv(R(1), bet_prob), fair_prob), R(1))
        edge_percentage == RMul(edge, R(100))
    IN  <<edge_percentage, ev>>

\* A previous fair value of 0 is falsy.
calculate_fair_value_change(current_fv, previous_fv) ==
    IF RIsZero(previous_fv) THEN R(0)
    ELSE RMul(RDiv(RSub(current_fv, previous_fv), RAbs(previous_fv)), R(100))

\* Returns (edge_percentage, ev_percentage, fair_value, hold_percentage).
process_odds(bet_odds, market_odds1, market_odds2) ==
    LET fv == calculate_fair_value(market_odds1, market_odds2)
        e == calculate_ev(bet_odds, fv.fair_odds1)
    IN  <<e[1], e[2], fv.fair_odds1, RMul(fv.hold, R(100))>>

american_to_prob_Unsigned(odds) == Norm(100, Abs(odds) + 100)

\* odds is the integer price of a quote.
american_to_prob(odds) ==
    IF odds > 0 THEN Norm(100, odds + 100)
    ELSE Norm(Abs(odds), Abs(odds) + 100)

prob_to_american_Raises(prob) == prob = R(0) \/ prob = R(1)

prob_to_american(prob) ==
    IF RLe(<<1, 2>>, prob)
    THEN RRound(RDiv(RMul(R(-100), prob), RSub(R(1), prob)))
    ELSE RRound(RDiv(RMul(R(100), RSub(R(1), prob)), prob))

---------------------------------------------------------------------------
(* The provider's data.  An outcome is a JSON object with description,     *)
(* name, point and price; a key that is absent (or null) is "" for name,   *)
(* << >> for description and 0 for point and price (no quote has a price   *)
(* or a line of 0).  dict = FALSE is an entry of the outcomes array that   *)
(* is not an object.  A market has a key and outcomes, a bookmaker a key   *)
(* and markets.                                                            *)

NullOutcome == [dict |-> FALSE, description |-> << >>, name |-> "", point |-> 0, price |-> 0]

\* str.startswith
StartsWith(s, prefix) == Len(prefix) <= Len(s) /\ SubSeq(s, 1, Len(prefix)) = prefix
\* 'word' in s
Contains(s, word) == \E i \in 1..Len(s) : s[i] = word
\* str.lower() of an outcome's name or of a prop type
Lower(name) == CASE name = "Over" -> "over" [] name = "Under" -> "under" [] OTHER -> name

\* next((x for x in seq if P(x)), None): the index of the first match, 0 for
\* None.
FirstIdx(seq, P(_)) ==
    LET S == {i \in 1..Len(seq) : P(seq[i])}
    IN  IF S = {} THEN 0 ELSE CHOOSE i \in S : \A j \in S : i <= j

\* The generator calls o.get on every entry up to the first match: an entry
\* that is not an object raises AttributeError there.
NextRaises(seq, idx) ==
    \E i \in 1..(IF idx = 0 THEN Len(seq) ELSE idx - 1) : ~seq[i].dict

RECURSIVE RSum(_, _)
RSum(S, F) ==
    IF S = {} THEN R(0)
    ELSE LET x == CHOOSE y \in S : TRUE IN RAdd(F[x], RSum(S \ {x}, F))

RECURSIVE RMaxOver(_, _)
RMaxOver(S, F) ==
    IF S = {} THEN R(0)
    ELSE LET x == CHOOSE y \in S : TRUE IN RMax(F[x], RMaxOver(S \ {x}, F))

\* A Python list and a Python dict of bookmakers.
ListOf(seq) == [py |-> "list", elems |-> seq]
DictOf(f) == [py |-> "dict", items |-> f]

\* Returns (main price, opposing price); 0 is None.  Any exception inside is
\* caught and gives (None, None).
find_matching_odds(player, market_type, prop_type, line_value, book_data) ==
    LET mIdx == FirstIdx(book_data.markets, LAMBDA m : m.key = market_type)
        outs == book_data.markets[mIdx].outcomes
        IsSide(o, side) ==
            /\ o.dict
            /\ o.description = player
            /\ o.point = line_value
            /\ Lower(o.name) = side
        opp_type == IF Lower(prop_type) = "over" THEN "under" ELSE "over"
        mainIdx == FirstIdx(outs, LAMBDA o : IsSide(o, Lower(prop_type)))
        oppIdx == FirstIdx(outs, LAMBDA o : IsSide(o, opp_type))
    IN  IF mIdx = 0 THEN <<0, 0>>
        ELSE IF NextRaises(outs, mainIdx) \/ NextRaises(outs, oppIdx) THEN <<0, 0>>
        ELSE IF mainIdx # 0 /\ oppIdx # 0
             THEN <<outs[mainIdx].price, outs[oppIdx].price>>
        ELSE <<0, 0>>

\* The weight table local to calculate_consensus_line.
book_weights ==
    [pinnacle |-> <<1, 2>>, fanduel |-> <<3, 10>>, draftkings |-> <<3, 10>>,
     betmgm |-> <<3, 10>>, betonlineag |-> <<2, 5>>, fliff |-> <<1, 5>>,
     underdog |-> <<1, 5>>]

\* (None, None, None)
NoConsensus == [ok |-> FALSE, main |-> 0, opp |-> 0, n |-> 0]

\* For a dict of bookmakers: the books of the weight table, those of them
\* that quote both sides, the weighted average probabilities and the largest
\* deviations from them (lines 299-364).
\* The steps of the computation are operators that take the values computed
\* so far as arguments.

\* Lines 352-353: sum(prob * weight) / total_weight over the available books.
WeightedProb(prob, available_books) ==
    IF available_books = {} THEN R(0)
    ELSE RDiv(RSum(available_books,
                   [k \in available_books |-> RMul(prob[k], book_weights[k])]),
              RSum(available_books, [k \in available_books |-> book_weights[k]]))

\* Lines 356-362: the largest |prob - weighted| over the available books.
MaxDiff(prob, available_books, weighted) ==
    RMaxOver(available_books, [k \in available_books |-> RAbs(RSub(prob[k], weighted))])

ConsensusOfWeighted(valid_books, available_books, main_prob, opp_prob, w_main, w_opp) ==
    [valid_books |-> valid_books,
     available_books |-> available_books,
     weighted_main_prob |-> w_main,
     weighted_opp_prob |-> w_opp,
     max_main_diff |-> MaxDiff(main_prob, available_books, w_main),
     max_opp_diff |-> MaxDiff(opp_prob, available_books, w_opp)]

ConsensusOfProbs(valid_books, available_books, main_prob, opp_prob) ==
    ConsensusOfWeighted(valid_books, available_books, main_prob, opp_prob,
                        WeightedProb(main_prob, available_books),
                        WeightedProb(opp_prob, available_books))

\* Lines 314-317: the books with both prices, and their probabilities.
ConsensusOfQuotes(valid_books, quote, available_books) ==
    ConsensusOfProbs(valid_books, available_books,
                     [k \in available_books |-> american_to_prob(quote[k][1])],
                     [k \in available_books |-> american_to_prob(quote[k][2])])

ConsensusOfBooks(valid_books, quote) ==
    ConsensusOfQuotes(valid_books, quote,
                      {k \in valid_books : quote[k][1] # 0 /\ quote[k][2] # 0})

ConsensusDetail(player, market_type, prop_type, line_value, books) ==
    ConsensusOfBooks(DOMAIN books \cap DOMAIN book_weights,
        [k \in DOMAIN books \cap DOMAIN book_weights |->
            find_matching_odds(player, market_type, prop_type, line_value, books[k])])

ConsensusResult_NoMinimum(d) ==
    IF d.available_books = {} THEN NoConsensus
    ELSE IF RLt(MAX_PROB_DIFF, d.max_main_diff) /\ RLt(MAX_PROB_DIFF, d.max_opp_diff)
         THEN NoConsensus
    ELSE [ok |-> TRUE,
          main |-> prob_to_american(d.weighted_main_prob),
          opp |-> prob_to_american(d.weighted_opp_prob),
          n |-> Cardinality(d.available_books)]

ConsensusResult_EitherDisagreement(d) ==
    IF Cardinality(d.valid_books) < MIN_BOOKS_FOR_CONSENSUS THEN NoConsensus
    ELSE IF d.available_books = {} THEN NoConsensus
    ELSE IF RLt(MAX_PROB_DIFF, d.max_main_diff) \/ RLt(MAX_PROB_DIFF, d.max_opp_diff)
         THEN NoConsensus
    ELSE [ok |-> TRUE,
          main |-> prob_to_american(d.weighted_main_prob),
          opp |-> prob_to_american(d.weighted_opp_prob),
          n |-> Cardinality(d.available_books)]

ConsensusResult_NoDisagreement(d) ==
    IF Cardinality(d.valid_books) < MIN_BOOKS_FOR_CONSENSUS THEN NoConsensus
    ELSE IF d.available_books = {} THEN NoConsensus
    ELSE [ok |-> TRUE,
          main |-> prob_to_american(d.weighted_main_prob),
          opp |-> prob_to_american(d.weighted_opp_prob),
          n |-> Cardinality(d.available_books)]

\* Lines 300-302 and 342-377: the tests on the detail and the conversion of
\* the weighted probabilities to prices.
ConsensusResult(d) ==
    IF Cardinality(d.valid_books) < MIN_BOOKS_FOR_CONSENSUS THEN NoConsensus
    ELSE IF d.available_books = {} THEN NoConsensus
    ELSE IF RLt(MAX_PROB_DIFF, d.max_main_diff) /\ RLt(MAX_PROB_DIFF, d.max_opp_diff)
         THEN NoConsensus
    ELSE IF prob_to_american_Raises(d.weighted_main_prob)
            \/ prob_to_american_Raises(d.weighted_opp_prob) THEN NoConsensus
    ELSE [ok |-> TRUE,
          main |-> prob_to_american(d.weighted_main_prob),
          opp |-> prob_to_american(d.weighted_opp_prob),
          n |-> Cardinality(d.available_books)]

\* bookmakers is ListOf(...) or DictOf(...).  With a list of bookmaker
\* objects the test `book in book_weights` hashes a dict and raises
\* TypeError, and an empty list has too few books; the outer except turns
\* every exception into (None, None, None).
calculate_consensus_line(player, market_type, prop_type, line_value, bookmakers) ==
    IF bookmakers.py = "list" THEN NoConsensus
    ELSE ConsensusResult(
            ConsensusDetail(player, market_type, prop_type, line_value, bookmakers.items))

---------------------------------------------------------------------------
(* The events process_player_props is run on.  An event has up to MaxBooks *)
(* bookmakers besides pinnacle, each quoting up to MaxMarkets markets with *)
(* an Over and an Under outcome for each of up to MaxPlayers players.      *)

MaxBooks == 2
MaxMarkets == 2
MaxPlayers == 2
MaxRuns == 2

Players == <<"X", "Y", "Z", "W">>
MarketKeys == <<"player_points", "player_rebounds", "player_assists", "player_threes">>
OtherKeys == <<"fanduel", "draftkings", "caesars", "betmgm">>

\* How a feed writes the description of an outcome: the player alone, the
\* player and the side, the player and both words, or the player alone on
\* Over outcomes and the player and the side on Under outcomes.
Desc(player, fmt, side) ==
    CASE fmt = "player" -> <<player>>
      [] fmt = "side" -> <<player, side>>
      [] fmt = "both" -> <<player, "Over", "Under">>
      [] fmt = "mixed" -> IF side = "Over" THEN <<player>> ELSE <<player, side>>

\* The reference book's format and the other books' format.
Formats == {<<"player", "player">>, <<"both", "both">>, <<"mixed", "side">>}

\* (Over price, Under price)
RefPairs == <<<<-110, -110>>, <<-120, 100>>>>
BookPairs == <<<<105, -130>>, <<-130, 125>>, <<150, -200>>, <<135, -160>>>>

\* r: which reference pair the first market carries (the markets alternate);
\* rot, stride: which pair book i carries.
Pricings == {[r |-> 0, rot |-> 0, stride |-> 0], [r |-> 1, rot |-> 0, stride |-> 0],
             [r |-> 0, rot |-> 0, stride |-> 1], [r |-> 1, rot |-> 2, stride |-> 1]}

Defects == {"none", "null_first", "null_last", "no_price", "no_markets",
            "iso_time", "short_book"}

MkMarket(key, np, fmt, pair) ==
    [key |-> key,
     outcomes |-> [i \in 1..(2 * np) |->
        LET side == IF i % 2 = 1 THEN "Over" ELSE "Under"
        IN  [dict |-> TRUE,
             description |-> Desc(Players[(i + 1) \div 2], fmt, side),
             name |-> side,
             point |-> 11,    \* a line of 5.5, in half points
             price |-> IF i % 2 = 1 THEN pair[1] ELSE pair[2]]]]

MkBook(key, nm, np, fmt, pairs) ==
    [key |-> key, markets |-> [m \in 1..nm |-> MkMarket(MarketKeys[m], np, fmt, pairs[m])]]

\* The defects of a feed, applied to the first bookmaker of the list: an
\* entry of the first market's outcomes that is not an object (first or
\* last), a first outcome without a price, no markets at all.
Defective(book, defect) ==
    LET outs == book.markets[1].outcomes
    IN  CASE defect = "null_first" ->
               [book EXCEPT !.markets[1].outcomes = <<NullOutcome>> \o outs]
          [] defect = "null_last" ->
               [book EXCEPT !.markets[1].outcomes = outs \o <<NullOutcome>>]
          [] defect = "no_price" ->
               [book EXCEPT !.markets[1].outcomes[1].price = 0]
          [] defect = "no_markets" -> [book EXCEPT !.markets = << >>]
          [] OTHER -> book

MkEvent(p) ==
    LET refPairs == [m \in 1..p.nm |-> RefPairs[((p.pricing.r + m - 1) % 2) + 1]]
        pin == MkBook("pinnacle", p.nm, p.np, p.fmt[1], refPairs)
        other(i) ==
            LET pair == BookPairs[((p.pricing.rot + p.pricing.stride * (i - 1)) % Len(BookPairs)) + 1]
                fmt == IF ~p.hasPin /\ i = 1 THEN p.fmt[1] ELSE p.fmt[2]
                nm == IF p.defect = "short_book" /\ i = p.nb /\ i > 1 THEN 1 ELSE p.nm
            IN  MkBook(OtherKeys[i], nm, p.np, fmt, [m \in 1..nm |-> pair])
        books == (IF p.hasPin THEN <<pin>> ELSE << >>) \o [i \in 1..p.nb |-> other(i)]
    IN  [bookmakers |-> IF books = << >> THEN books
                        ELSE <<Defective(books[1], p.defect)>> \o Tail(books),
         commence_time |-> IF p.defect = "iso_time" THEN "2025-01-01T00:00:00Z" ELSE ""]

EventParams ==
    [hasPin : BOOLEAN, nb : 0..MaxBooks, nm : 1..MaxMarkets, np : 1..MaxPlayers,
     fmt : Formats, pricing : Pricings, defect : Defects]

EventInputs == {MkEvent(p) : p \in EventParams}

---------------------------------------------------------------------------
(* process_player_props (lines 513-859), one action per loop level.        *)

ZeroStats ==
    [alerts_sent |-> 0, ev_opportunities_found |-> 0, total_props_found |-> 0,
     props_filtered_no_market |-> 0, props_filtered_no_outcome |-> 0,
     props_filtered_no_opposing |-> 0, props_filtered_consensus |-> 0,
     props_processed |-> 0, edges_calculated |-> 0, positive_edges_found |-> 0]

NoBook == [key |-> "", markets |-> << >>]
NoEvent == [bookmakers |-> << >>, commence_time |-> ""]
Unbound == [bound |-> FALSE, v |-> << >>]
Bound(v) == [bound |-> TRUE, v |-> v]
NoRef ==
    [player_name |-> << >>, is_over |-> FALSE, prop_type |-> "", line_value |-> 0,
     market_key |-> "", pin_price |-> 0, pin_opposing_price |-> 0,
     pin_hold |-> R(0), true_prob |-> R(0)]
EmptyDict == [k \in {} |-> 0]

\* d[k] = v on a Python dict
DictSet(d, k, v) == [x \in DOMAIN d \cup {k} |-> IF x = k THEN v ELSE d[x]]

\* The locals of a call before its first statement.
FreshLocals ==
    /\ use_consensus = FALSE
    /\ reference_odds = NoBook
    /\ mi = 0 /\ oi = 0 /\ bi = 0
    /\ description = Unbound
    /\ ref = NoRef
    /\ stats = ZeroStats
    /\ escaped = FALSE

PropsIdle ==
    /\ props_data = NoEvent
    /\ event_id = ""
    /\ pinnacle_odds_history = EmptyDict
    /\ pc = "idle"
    /\ run = 0
    /\ FreshLocals
    /\ opportunities = << >>
    /\ alerts = << >>
    /\ outcome_log = << >>
    /\ book_log = << >>

\* Lines 515-569: the checks before the market loop.  A return before the
\* try (no bookmakers; no pinnacle and fewer than two bookmakers) skips the
\* summary of the finally block; a return inside it (no markets) does not.
PP_Enter ==
    /\ pc = "call"
    /\ LET all_bookmakers == props_data.bookmakers
           pinIdx == FirstIdx(all_bookmakers, LAMBDA bm : bm.key = "pinnacle")
       IN  /\ use_consensus' = (all_bookmakers # << >> /\ pinIdx = 0)
           /\ IF all_bookmakers = << >> THEN
                  pc' = "done" /\ reference_odds' = NoBook
              ELSE IF pinIdx = 0 /\ Len(all_bookmakers) < 2 THEN
                  pc' = "done" /\ reference_odds' = NoBook
              ELSE
                  /\ reference_odds' =
                        IF pinIdx = 0 THEN all_bookmakers[1] ELSE all_bookmakers[pinIdx]
                  /\ pc' = IF reference_odds'.markets = << >> THEN "finally" ELSE "markets"
    /\ mi' = 0 /\ oi' = 0 /\ bi' = 0
    /\ description' = Unbound
    /\ ref' = NoRef
    /\ stats' = ZeroStats
    /\ escaped' = FALSE
    /\ UNCHANGED <<props_data, event_id, pinnacle_odds_history, run, opportunities,
                   alerts, outcome_log, book_log, calcVars, scanVars>>

\* Lines 572-581: the head of the market loop.  The cap on alerts is tested
\* here, once per market, and nowhere else.
PP_Market ==
    /\ pc = "markets"
    /\ IF mi = Len(reference_odds.markets) THEN
          /\ pc' = "finally"
          /\ UNCHANGED <<mi, oi, stats>>
       ELSE
          LET market == reference_odds.markets[mi + 1]
          IN  /\ mi' = mi + 1
              /\ oi' = 0
              /\ stats' = [stats EXCEPT !.total_props_found = @ + Len(market.outcomes)]
              /\ pc' = IF stats.alerts_sent >= MAX_ALERTS_PER_EVENT
                       THEN "finally" ELSE "outcomes"
    /\ UNCHANGED <<props_data, event_id, pinnacle_odds_history, run, use_consensus,
                   reference_odds, bi, description, ref, opportunities, alerts,
                   outcome_log, book_log, escaped, calcVars, scanVars>>

\* Lines 651-657: the other side of the reference book's outcome is looked
\* for by the words Over and Under in the description.
OpposingIdx(outcomes, player_name, is_over) ==
    FirstIdx(outcomes, LAMBDA o :
        /\ o.dict
        /\ StartsWith(o.description, player_name)
        /\ \/ Contains(o.description, "Over") /\ ~is_over
           \/ Contains(o.description, "Under") /\ is_over)

\* Lines 584-672 for one outcome of the reference book: how the body ends
\* (a filter's continue, an exception, or "compared": the book loop is
\* entered) and the reference prices it has computed.  The steps are
\* operators that take the values computed so far as arguments.
OutcomeEnds(result) == [result |-> result, ref |-> NoRef]

\* Lines 665-672: hold and true probability of the reference prices; the
\* book loop is entered.
OutcomeCompared(outcome, market, pin_price, pin_opposing_price, pin_hold) ==
    [result |-> "compared",
     ref |-> [player_name |-> outcome.description,
              is_over |-> Lower(outcome.name) = "over",
              prop_type |-> IF Lower(outcome.name) = "over" THEN "Over" ELSE "Under",
              line_value |-> outcome.point,
              market_key |-> market.key,
              pin_price |-> pin_price,
              pin_opposing_price |-> pin_opposing_price,
              pin_hold |-> pin_hold,
              true_prob |-> devig_pinnacle_odds(R(pin_price),
                                R(pin_opposing_price), R(0))[1]]]

\* Lines 641-649: consensus mode.
OutcomeOfConsensus(outcome, market, c) ==
    IF ~c.ok \/ c.main = 0 \/ c.opp = 0 THEN OutcomeEnds("no_consensus")
    ELSE OutcomeCompared(outcome, market, c.main, c.opp, R(c.n))

\* Lines 659-668: pinnacle mode, once the opposing outcome is found.
OutcomeOfPrices(outcome, market, pin_price, pin_opposing_price) ==
    IF pin_opposing_price = 0 THEN OutcomeEnds("no_opposing")
    \* calculate_hold(None, price): None > 0 raises
    ELSE IF pin_price = 0 THEN OutcomeEnds("TypeError")
    ELSE OutcomeCompared(outcome, market, pin_price, pin_opposing_price,
                         calculate_hold(R(pin_price), R(pin_opposing_price)))

\* Lines 651-662: pinnacle mode, the search of the opposing outcome.
OutcomeOfOpposing(outcome, market, oppIdx) ==
    IF NextRaises(market.outcomes, oppIdx) THEN OutcomeEnds("AttributeError")
    ELSE IF oppIdx = 0 THEN OutcomeEnds("no_opposing")
    ELSE OutcomeOfPrices(outcome, market, outcome.price, market.outcomes[oppIdx].price)

OutcomeBody(outcome, market, all_bookmakers, consensus) ==
    IF ~outcome.dict THEN OutcomeEnds("AttributeError")
    ELSE IF outcome.description = << >> THEN OutcomeEnds("no_description")
    ELSE IF outcome.name = "" \/ outcome.point = 0 THEN OutcomeEnds("no_prop_details")
    ELSE IF consensus THEN
        OutcomeOfConsensus(outcome, market,
            calculate_consensus_line(outcome.description, market.key,
                IF Lower(outcome.name) = "over" THEN "Over" ELSE "Under",
                outcome.point, ListOf(all_bookmakers)))
    ELSE OutcomeOfOpposing(outcome, market,
            OpposingIdx(market.outcomes, outcome.description,
                        Lower(outcome.name) = "over"))

\* The counter a filter of the outcome loop increments.
OutcomeCounter(result) ==
    CASE result \in {"no_description", "no_prop_details"} -> "props_filtered_no_outcome"
      [] result = "no_consensus" -> "props_filtered_consensus"
      [] result = "no_opposing" -> "props_filtered_no_opposing"
      [] OTHER -> ""

\* Lines 584-675 and the handler of lines 829-831: the outcome loop.  The
\* handler formats the local `description`; when the exception came from
\* line 589 of the first outcome processed in the call the local is unbound,
\* the handler itself raises UnboundLocalError, and that leaves both loops
\* for the handler of line 833.
PP_Outcome ==
    /\ pc = "outcomes"
    /\ LET market == reference_odds.markets[mi]
       IN  IF oi = Len(market.outcomes) THEN
              /\ pc' = "markets"
              /\ UNCHANGED <<oi, bi, description, ref, stats, outcome_log, escaped>>
           ELSE
              \E b \in {OutcomeBody(market.outcomes[oi + 1], market, props_data.bookmakers,
                                    use_consensus)} :
              LET outcome == market.outcomes[oi + 1]
                  unbound == ~outcome.dict /\ ~description.bound
                  result == IF unbound THEN "UnboundLocalError" ELSE b.result
              IN  /\ oi' = oi + 1
                  /\ bi' = 0
                  /\ description' = IF outcome.dict THEN Bound(outcome.description)
                                    ELSE description
                  /\ ref' = b.ref
                  /\ stats' = IF OutcomeCounter(result) = "" THEN stats
                              ELSE [stats EXCEPT ![OutcomeCounter(result)] = @ + 1]
                  /\ outcome_log' = Append(outcome_log,
                        [run |-> run, market |-> mi, outcome |-> oi + 1, result |-> result])
                  /\ escaped' = unbound
                  /\ pc' = IF unbound THEN "finally"
                           ELSE IF result = "compared" THEN "books" ELSE "outcomes"
    /\ UNCHANGED <<props_data, event_id, pinnacle_odds_history, run, use_consensus,
                   reference_odds, mi, opportunities, alerts, book_log, calcVars, scanVars>>

\* Lines 690-696: the book's outcome is looked for by the words Over and
\* Under in the description.
BookOutcomeIdx(outcomes, player_name, is_over) ==
    FirstIdx(outcomes, LAMBDA o :
        /\ o.dict
        /\ StartsWith(o.description, player_name)
        /\ \/ is_over /\ Contains(o.description, "Over")
           \/ ~is_over /\ Contains(o.description, "Under"))

HistoryEmbedRaises_Never(history) == FALSE

\* Lines 790-796: the embed reads history['current'], ['current_limit'],
\* ['previous'], ['prev_limit'], ['open'] and ['open_limit']; a missing key
\* raises KeyError.
HistoryEmbedRaises(history) ==
    ~({"current", "current_limit", "previous", "prev_limit", "open", "open_limit"}
         \subseteq DOMAIN history)

\* Lines 676-741 for one book: how the comparison ends before any alert is
\* built, the new history entry of the event, and the opportunity if the
\* edge is accepted.  The steps are operators that take the values computed
\* so far as arguments.
BookEnds(result, history) ==
    [result |-> result, compared |-> FALSE, positive |-> FALSE,
     history |-> history, opportunity |-> << >>]

BookDecided_AcceptedOnly(book, r, history, e_id, n_run, book_price, po, fv_change, accepted, k) ==
    [result |-> IF accepted THEN "accepted" ELSE "rejected",
     compared |-> TRUE,
     positive |-> RPos(po[1]),
     history |->
        IF ~accepted THEN history
        ELSE DictSet(history, e_id,
                DictSet(IF e_id \in DOMAIN history THEN history[e_id] ELSE EmptyDict,
                        "fair_value", po[3])),
     opportunity |->
        IF ~accepted THEN << >>
        ELSE <<[run |-> n_run, book |-> book.key, market |-> r.market_key,
                player |-> r.player_name, prop_type |-> r.prop_type,
                line_value |-> r.line_value, price |-> book_price,
                fair_value |-> po[3], edge_pct |-> po[1], ev_pct |-> po[2],
                units |-> k[1], dollars |-> k[2], fv_change |-> fv_change]>>]

\* Lines 722-741: the history entry of the event, the acceptance test and
\* the Kelly sizing.
BookDecided(book, r, history, e_id, n_run, book_price, po, fv_change, accepted, k) ==
    [result |-> IF accepted THEN "accepted" ELSE "rejected",
     compared |-> TRUE,
     positive |-> RPos(po[1]),
     history |->
        DictSet(history, e_id,
                DictSet(IF e_id \in DOMAIN history THEN history[e_id] ELSE EmptyDict,
                        "fair_value", po[3])),
     opportunity |->
        IF ~accepted THEN << >>
        ELSE <<[run |-> n_run, book |-> book.key, market |-> r.market_key,
                player |-> r.player_name, prop_type |-> r.prop_type,
                line_value |-> r.line_value, price |-> book_price,
                fair_value |-> po[3], edge_pct |-> po[1], ev_pct |-> po[2],
                units |-> k[1], dollars |-> k[2], fv_change |-> fv_change]>>]

BookOfEdge(book, r, history, e_id, n_run, book_price, po, edge) ==
    BookDecided(book, r, history, e_id, n_run, book_price, po,
        calculate_fair_value_change(po[3],
            IF e_id \in DOMAIN history /\ "fair_value" \in DOMAIN history[e_id]
            THEN history[e_id].fair_value ELSE R(0)),
        is_plus_ev(edge, MIN_EDGE_THRESHOLD, MAX_EDGE_THRESHOLD),
        kelly_criterion(edge, R(book_price), KELLY_FRACTION))

\* Lines 706-739: process_odds on the book's price, edge = edge_pct / 100.
BookOfOdds(book, r, history, e_id, n_run, book_price, po) ==
    BookOfEdge(book, r, history, e_id, n_run, book_price, po, RDiv(po[1], R(100)))

\* Lines 690-704: the book's outcome and its price.
BookOfOutcome(book, r, history, e_id, n_run, outs, oIdx) ==
    IF NextRaises(outs, oIdx) THEN BookEnds("AttributeError", history)
    ELSE IF oIdx = 0 THEN BookEnds("no_outcome", history)
    ELSE IF outs[oIdx].price = 0 THEN BookEnds("no_outcome", history)
    ELSE BookOfOdds(book, r, history, e_id, n_run, outs[oIdx].price,
            process_odds(R(outs[oIdx].price), R(r.pin_price), R(r.pin_opposing_price)))

\* Lines 683-688: the book's market of the same key.
BookOfMarket(book, r, history, e_id, n_run, mIdx) ==
    IF mIdx = 0 THEN BookEnds("no_market", history)
    ELSE BookOfOutcome(book, r, history, e_id, n_run, book.markets[mIdx].outcomes,
            BookOutcomeIdx(book.markets[mIdx].outcomes, r.player_name, r.is_over))

BookBody(book, r, history, e_id, consensus, reference, n_run) ==
    IF book.key = "pinnacle" \/ (consensus /\ book = reference)
    THEN BookEnds("skipped", history)
    ELSE BookOfMarket(book, r, history, e_id, n_run,
            FirstIdx(book.markets, LAMBDA m : m.key = r.market_key))

\* Lines 676-827: the book loop, one iteration with everything it does: the
\* comparison, the history, the acceptance, the embed, channel.send and the
\* handler of lines 825-827.  An ISO commence_time makes
\* datetime.fromtimestamp raise TypeError; channel.send may fail (ok).
PP_Book ==
    /\ pc = "books"
    /\ \E ok \in BOOLEAN :
       IF bi = Len(props_data.bookmakers) THEN
          /\ pc' = "outcomes"
          /\ UNCHANGED <<bi, pinnacle_odds_history, stats, opportunities, alerts, book_log>>
       ELSE
          \E b \in {BookBody(props_data.bookmakers[bi + 1], ref, pinnacle_odds_history,
                             event_id, use_consensus, reference_odds, run)} :
          LET book == props_data.bookmakers[bi + 1]
              result ==
                  IF b.result # "accepted" THEN b.result
                  ELSE IF props_data.commence_time # "" THEN "TypeError"
                  ELSE IF HistoryEmbedRaises(b.history[event_id]) THEN "KeyError"
                  ELSE IF ok THEN "sent" ELSE "send_failed"
              bump(s, f, cond) == IF cond THEN [s EXCEPT ![f] = @ + 1] ELSE s
          IN  /\ bi' = bi + 1
              /\ pc' = "books"
              /\ pinnacle_odds_history' = b.history
              /\ opportunities' = opportunities \o b.opportunity
              /\ alerts' = IF result = "sent" THEN alerts \o b.opportunity ELSE alerts
              /\ stats' =
                    bump(bump(bump(bump(bump(bump(bump(stats,
                        "props_filtered_no_market", b.result = "no_market"),
                        "props_filtered_no_outcome", b.result = "no_outcome"),
                        "props_processed", b.compared),
                        "edges_calculated", b.compared),
                        "positive_edges_found", b.positive),
                        "ev_opportunities_found", b.positive),
                        "alerts_sent", result = "sent")
              /\ book_log' = Append(book_log,
                    [run |-> run, market |-> mi, outcome |-> oi, book |-> book.key,
                     result |-> result])
    /\ UNCHANGED <<props_data, event_id, run, use_consensus, reference_odds, mi, oi,
                   description, ref, outcome_log, escaped, calcVars, scanVars>>

\* Lines 833-859: the outer handler has nothing but a log line; the finally
\* block logs the counters and the conversion rates.
PP_Finally ==
    /\ pc = "finally"
    /\ pc' = "done"
    /\ UNCHANGED <<props_data, event_id, pinnacle_odds_history, run, use_consensus,
                   reference_odds, mi, oi, bi, description, ref, stats, opportunities,
                   alerts, outcome_log, book_log, escaped, calcVars, scanVars>>

\* The next scan cycle processes the event again: the same snapshot, and
\* the history the previous cycle left in the module-level dict.
PP_Again ==
    /\ pc = "done"
    /\ run < MaxRuns
    /\ pc' = "call"
    /\ run' = run + 1
    /\ UNCHANGED <<props_data, event_id, pinnacle_odds_history, use_consensus,
                   reference_odds, mi, oi, bi, description, ref, stats, opportunities,
                   alerts, outcome_log, book_log, escaped, calcVars, scanVars>>

---------------------------------------------------------------------------
(* scan_for_ev (lines 929-987) and on_ready (924-927).  The provider's     *)
(* answers are inputs: the events fetch returns a list of up to MaxEvents  *)
(* events (the empty list also when the request failed), and an event is   *)
(* one of                                                                  *)
(*   "ok"      its props fetch returns odds and process_player_props       *)
(*             returns,                                                    *)
(*   "raises"  its props fetch returns a payload process_player_props      *)
(*             raises on before its try (a bookmaker without a key),       *)
(*   "empty"   its props fetch fails or returns nothing ({}),              *)
(*   "no_id"   the event has no id.                                        *)

MaxEvents == 2

\* The fetches that are not counted, and the firings of on_ready, are
\* followed up to these numbers.
MaxUncounted == 1
MaxTasks == 2

EventKinds == {"ok", "raises", "empty", "no_id"}
EventLists == UNION {[1..n -> EventKinds] : n \in 0..MaxEvents}
NoFetch == [kind |-> "none", remaining |-> 0]

ScanIdle ==
    /\ scan_pc = "idle"
    /\ remaining_requests = 0
    /\ events = << >>
    /\ ei = 0
    /\ fetch = NoFetch
    /\ slept = 0
    /\ uncounted = 0
    /\ tasks = 0

\* on_ready creates the task; line 931 runs before the loop.
Scan_Start ==
    /\ scan_pc = "idle"
    /\ scan_pc' = "top"
    /\ remaining_requests' = CALLS_PER_MONTH
    /\ tasks' = tasks + 1
    /\ UNCHANGED <<events, ei, fetch, slept, uncounted, calcVars, propsVars>>

\* on_ready fires again (discord.py calls it after every reconnect that
\* cannot resume the session): it creates another scan_for_ev task, whatever
\* tasks there are.  The new task runs the same loop with its own
\* remaining_requests; the loop variables follow the first task.
Scan_Restart ==
    /\ scan_pc # "idle"
    /\ tasks < MaxTasks
    /\ tasks' = tasks + 1
    /\ UNCHANGED <<scan_pc, remaining_requests, events, ei, fetch, slept, uncounted,
                   calcVars, propsVars>>

\* Lines 933-955: from the head of the while loop to the for loop, or to
\* the sleep and continue of the three early exits.
Scan_Top ==
    /\ scan_pc = "top"
    /\ \E channel \in BOOLEAN :
         IF ~channel THEN
            /\ slept' = 60
            /\ UNCHANGED <<scan_pc, remaining_requests, events, ei, fetch, uncounted>>
         ELSE IF remaining_requests <= 0 THEN
            /\ slept' = 3600
            /\ remaining_requests' = CALLS_PER_MONTH
            /\ uncounted' = 0
            /\ UNCHANGED <<scan_pc, events, ei, fetch>>
         ELSE
            \E fetched \in EventLists :
            /\ fetch' = [kind |-> "events", remaining |-> remaining_requests]
            /\ events' = fetched
            /\ ei' = 0
            /\ IF fetched = << >> THEN
                  /\ uncounted < MaxUncounted
                  /\ uncounted' = uncounted + 1
                  /\ slept' = 60
                  /\ UNCHANGED <<scan_pc, remaining_requests>>
               ELSE
                  /\ remaining_requests' = remaining_requests - 1
                  /\ scan_pc' = "events"
                  /\ UNCHANGED <<slept, uncounted>>
    /\ UNCHANGED <<tasks, calcVars, propsVars>>

Scan_Event_NoHandler ==
    /\ scan_pc = "events"
    /\ IF ei = Len(events) THEN
          /\ slept' = 60
          /\ scan_pc' = "top"
          /\ UNCHANGED <<remaining_requests, ei, fetch, uncounted>>
       ELSE IF events[ei + 1] = "no_id" THEN
          /\ ei' = ei + 1
          /\ UNCHANGED <<scan_pc, remaining_requests, fetch, slept, uncounted>>
       ELSE
          LET kind == events[ei + 1]
              left == IF kind = "ok" THEN remaining_requests - 1 ELSE remaining_requests
          IN  /\ fetch' = [kind |-> "props", remaining |-> remaining_requests]
              /\ ei' = ei + 1
              /\ remaining_requests' = left
              /\ IF kind = "ok" THEN UNCHANGED uncounted
                 ELSE uncounted < MaxUncounted /\ uncounted' = uncounted + 1
              /\ IF kind = "raises" THEN scan_pc' = "raised" /\ UNCHANGED slept
                 ELSE IF left <= 0 THEN slept' = 60 /\ scan_pc' = "top"
                 ELSE slept' = 1 /\ scan_pc' = "events"
    /\ UNCHANGED <<events, tasks, calcVars, propsVars>>

\* Lines 958-987: one pass of the for loop: the props fetch, the call of
\* process_player_props, the decrement, the one-second sleep and the test of
\* the budget; at the end of the list, at the break and in the handler of
\* line 985 the sixty-second sleep before the next cycle.
Scan_Event ==
    /\ scan_pc = "events"
    /\ IF ei = Len(events) THEN
          /\ slept' = 60
          /\ scan_pc' = "top"
          /\ UNCHANGED <<remaining_requests, ei, fetch, uncounted>>
       ELSE IF events[ei + 1] = "no_id" THEN
          /\ ei' = ei + 1
          /\ UNCHANGED <<scan_pc, remaining_requests, fetch, slept, uncounted>>
       ELSE
          LET kind == events[ei + 1]
              left == IF kind = "ok" THEN remaining_requests - 1 ELSE remaining_requests
          IN  /\ fetch' = [kind |-> "props", remaining |-> remaining_requests]
              /\ ei' = ei + 1
              /\ remaining_requests' = left
              /\ IF kind = "ok" THEN UNCHANGED uncounted
                 ELSE uncounted < MaxUncounted /\ uncounted' = uncounted + 1
              /\ IF kind = "raises" \/ left <= 0
                 THEN slept' = 60 /\ scan_pc' = "top"
                 ELSE slept' = 1 /\ scan_pc' = "events"
    /\ UNCHANGED <<events, tasks, calcVars, propsVars>>

Pending == [st |-> "pending"]
Returned(v) == [st |-> "returned", v |-> v]
Raised(e) == [st |-> "raised", exc |-> e]

CalcIdle == call = [fn |-> "none"] /\ ret = Pending

InitProps ==
    /\ props_data \in EventInputs
    /\ event_id = "e1"
    /\ pinnacle_odds_history = EmptyDict
    /\ pc = "call"
    /\ run = 1
    /\ FreshLocals
    /\ opportunities = << >>
    /\ alerts = << >>
    /\ outcome_log = << >>
    /\ book_log = << >>
    /\ CalcIdle
    /\ ScanIdle

NextProps == PP_Enter \/ PP_Market \/ PP_Outcome \/ PP_Book \/ PP_Finally \/ PP_Again

SpecProps == InitProps /\ [][NextProps]_vars

InitScan == ScanIdle /\ CalcIdle /\ PropsIdle

NextScan == Scan_Start \/ Scan_Restart \/ Scan_Top \/ Scan_Event

SpecScan == InitScan /\ [][NextScan]_vars

---------------------------------------------------------------------------
(* SpecCalc: one call of a pure function on arguments drawn from bounded   *)
(* sets.                                                                   *)

Prices == {-1000, -300, -200, -150, -120, -110, -105, -100, -50, -1,
           1, 50, 100, 105, 110, 120, 150, 200, 300, 1000}
Edges == {Norm(k, 100) : k \in {-50, -10, -5, 0, 2, 5, 10, 15, 20, 50}}
Fractions == {Norm(k, 4) : k \in {-1, 0, 1, 2, 4}}
Probs == {Norm(k, 20) : k \in 0..20}

\* Probabilities and values outside [0, 1].
WideProbs == {Norm(k, 20) : k \in -10..30}
PricesAndZero == Prices \cup {0}
\* The prices of the round trip through american_to_prob and
\* prob_to_american.
TripPrices == (-10000..-101) \cup (101..10000)
Thresholds == {R(0), MIN_EDGE_THRESHOLD, <<1, 20>>, MAX_EDGE_CALC, MAX_EDGE_THRESHOLD}

\* The (Over, Under) quotes of a book handed to calculate_consensus_line:
\* two ordinary quotes, two far apart on both sides, two far apart on the
\* Over side alone, one without an Under price.
ConsensusPairs == {<<105, -130>>, <<-130, 125>>, <<-400, 300>>, <<300, -400>>,
                   <<-400, -110>>, <<300, -110>>, <<105, 0>>}
ConsensusKeys == {"fanduel", "draftkings", "caesars", "betrivers"}
MaxConsensusBooks == 3
ConsensusBook(k, pair) == MkBook(k, 1, 1, "player", <<pair>>)
ConsensusDicts ==
    UNION {[S -> ConsensusPairs] :
             S \in {T \in SUBSET ConsensusKeys : Cardinality(T) <= MaxConsensusBooks}}
ConsensusInputs ==
         {DictOf([k \in DOMAIN f |-> ConsensusBook(k, f[k])]) : f \in ConsensusDicts}
    \cup {ListOf(<< >>),
          ListOf(<<ConsensusBook("fanduel", <<105, -130>>),
                   ConsensusBook("draftkings", <<-130, 125>>)>>)}

\* Fair prices: integer prices and the fair odds of a few quotes.
FairPrices ==
         {R(p) : p \in Prices}
    \cup {calculate_fair_value(R(a), R(b)).fair_odds1 : a, b \in {-120, -110, 100, 150}}

Calls ==
         [fn : {"kelly_criterion"}, edge : Edges, odds : Prices, kelly_fraction : Fractions]
    \cup [fn : {"calculate_edge"}, bet_odds : Prices, true_prob : Probs]
    \cup [fn : {"devig_pinnacle_odds", "calculate_fair_value", "calculate_hold"},
          odds1 : Prices, odds2 : Prices]
    \cup [fn : {"process_odds"}, bet_odds : {-110, 105}, odds1 : Prices, odds2 : Prices]
    \cup [fn : {"calculate_ev"}, bet_odds : Prices, fair_odds : FairPrices]
    \cup [fn : {"calculate_consensus_line"}, prop_type : {"Over", "Under"},
          bookmakers : ConsensusInputs]
    \cup [fn : {"is_plus_ev"}, edge : Edges, defaults : {TRUE},
          min_threshold : {MIN_EDGE_THRESHOLD}, max_threshold : {MAX_EDGE_THRESHOLD}]
    \cup [fn : {"is_plus_ev"}, edge : Edges, defaults : {FALSE},
          min_threshold : Thresholds, max_threshold : Thresholds]
    \cup [fn : {"round_trip"}, odds : TripPrices]
    \cup [fn : {"american_to_decimal", "calculate_implied_probability", "american_to_prob"},
          odds : PricesAndZero]
    \cup [fn : {"prob_to_american"}, prob : WideProbs]

InitCalc == call \in Calls /\ ret = Pending /\ PropsIdle /\ ScanIdle

Call_kelly_criterion ==
    /\ call.fn = "kelly_criterion" /\ ret.st = "pending"
    /\ ret' = Returned(kelly_criterion(call.edge, R(call.odds), call.kelly_fraction))
    /\ UNCHANGED <<call, propsVars, scanVars>>

Call_calculate_edge ==
    /\ call.fn = "calculate_edge" /\ ret.st = "pending"
    /\ ret' = Returned(calculate_edge(R(call.bet_odds), call.true_prob))
    /\ UNCHANGED <<call, propsVars, scanVars>>

Call_devig_pinnacle_odds ==
    /\ call.fn = "devig_pinnacle_odds" /\ ret.st = "pending"
    /\ ret' = Returned(devig_pinnacle_odds(R(call.odds1), R(call.odds2), R(0)))
    /\ UNCHANGED <<call, propsVars, scanVars>>

Call_calculate_fair_value ==
    /\ call.fn = "calculate_fair_value" /\ ret.st = "pending"
    /\ ret' = Returned(calculate_fair_value(R(call.odds1), R(call.odds2)))
    /\ UNCHANGED <<call, propsVars, scanVars>>

\* The arguments of the call are player X, market player_points, the
\* call's prop type and the line 5.5.
Call_calculate_consensus_line ==
    /\ call.fn = "calculate_consensus_line" /\ ret.st = "pending"
    /\ ret' = Returned(calculate_consensus_line(<<"X">>, "player_points", call.prop_type,
                                                11, call.bookmakers))
    /\ UNCHANGED <<call, propsVars, scanVars>>

Call_is_plus_ev ==
    /\ call.fn = "is_plus_ev" /\ ret.st = "pending"
    /\ ret' = Returned(is_plus_ev(call.edge, call.min_threshold, call.max_threshold))
    /\ UNCHANGED <<call, propsVars, scanVars>>

\* prob_to_american(american_to_prob(odds))
Call_round_trip ==
    /\ call.fn = "round_trip" /\ ret.st = "pending"
    /\ ret' = Returned(prob_to_american(american_to_prob(call.odds)))
    /\ UNCHANGED <<call, propsVars, scanVars>>

Call_american_to_decimal ==
    /\ call.fn = "american_to_decimal" /\ ret.st = "pending"
    /\ ret' = IF american_to_decimal_Raises(R(call.odds)) THEN Raised("ZeroDivisionError")
              ELSE Returned(american_to_decimal(R(call.odds)))
    /\ UNCHANGED <<call, propsVars, scanVars>>

Call_calculate_implied_probability ==
    /\ call.fn = "calculate_implied_probability" /\ ret.st = "pending"
    /\ ret' = Returned(calculate_implied_probability(R(call.odds)))
    /\ UNCHANGED <<call, propsVars, scanVars>>

Call_american_to_prob ==
    /\ call.fn = "american_to_prob" /\ ret.st = "pending"
    /\ ret' = Returned(american_to_prob(call.odds))
    /\ UNCHANGED <<call, propsVars, scanVars>>

Call_prob_to_american ==
    /\ call.fn = "prob_to_american" /\ ret.st = "pending"
    /\ ret' = IF prob_to_american_Raises(call.prob) THEN Raised("ZeroDivisionError")
              ELSE Returned(prob_to_american(call.prob))
    /\ UNCHANGED <<call, propsVars, scanVars>>

Call_calculate_hold ==
    /\ call.fn = "calculate_hold" /\ ret.st = "pending"
    /\ ret' = Returned(calculate_hold(R(call.odds1), R(call.odds2)))
    /\ UNCHANGED <<call, propsVars, scanVars>>

Call_process_odds ==
    /\ call.fn = "process_odds" /\ ret.st = "pending"
    /\ ret' = Returned(process_odds(R(call.bet_odds), R(call.odds1), R(call.odds2)))
    /\ UNCHANGED <<call, propsVars, scanVars>>

Call_calculate_ev ==
    /\ call.fn = "calculate_ev" /\ ret.st = "pending"
    /\ ret' = Returned(calculate_ev(R(call.bet_odds), call.fair_odds))
    /\ UNCHANGED <<call, propsVars, scanVars>>

NextCalc ==
    \/ Call_kelly_criterion
    \/ Call_calculate_edge
    \/ Call_devig_pinnacle_odds
    \/ Call_calculate_fair_value
    \/ Call_calculate_consensus_line
    \/ Call_is_plus_ev
    \/ Call_round_trip
    \/ Call_american_to_decimal
    \/ Call_calculate_implied_probability
    \/ Call_american_to_prob
    \/ Call_prob_to_american
    \/ Call_calculate_hold
    \/ Call_process_odds
    \/ Call_calculate_ev

SpecCalc == InitCalc /\ [][NextCalc]_vars

\* calculate_consensus_line called on its own and from process_player_props.
InitConsensus == InitCalc \/ InitProps
NextConsensus == NextCalc \/ NextProps
SpecConsensus == InitConsensus /\ [][NextConsensus]_vars

---------------------------------------------------------------------------
(* Claims about the pure functions, checked under SpecCalc.                *)

Range(seq) == {seq[i] : i \in 1..Len(seq)}
Done == pc = "done"
KellyReturned == call.fn = "kelly_criterion" /\ ret.st = "returned"
EdgeReturned == call.fn = "calculate_edge" /\ ret.st = "returned"
RawEdgeOfCall ==
    RSub(RMul(american_to_decimal(R(call.bet_odds)), call.true_prob), R(1))
InOpenUnit(x) == RLt(R(0), x) /\ RLt(x, R(1))

\* C1: for every nonzero price, edge and Kelly fraction multiplier the stake
\* kelly_criterion returns is within the unit band: units lies in
\* [1, MAX_UNIT_PCT/MIN_UNIT_PCT] and dollars in
\* [BANKROLL*MIN_UNIT_PCT, BANKROLL*MAX_UNIT_PCT], also when the scaled
\* Kelly fraction is zero or negative.
C1_KellyClamp ==
    KellyReturned =>
        /\ RLe(R(1), ret.v[1])
        /\ RLe(ret.v[1], RDiv(MAX_UNIT_PCT, MIN_UNIT_PCT))
        /\ RLe(RMul(BANKROLL, MIN_UNIT_PCT), ret.v[2])
        /\ RLe(ret.v[2], RMul(BANKROLL, MAX_UNIT_PCT))

\* A call with a negative edge (its Kelly fraction is negative) and a
\* positive multiplier has returned the minimum stake of one unit.
C1_Witness ==
    /\ KellyReturned
    /\ RLt(call.edge, R(0)) /\ RLt(R(0), call.kelly_fraction)
    /\ ret.v = <<R(1), RMul(BANKROLL, MIN_UNIT_PCT)>>

\* C4: a raw edge decimal_odds(offered)*fair_probability - 1 above
\* MAX_EDGE_CALC is returned as exactly MAX_EDGE_CALC, and a raw edge between
\* -MAX_EDGE_CALC and MAX_EDGE_CALC is returned unchanged.
C4_EdgeCap ==
    EdgeReturned =>
        /\ RLt(MAX_EDGE_CALC, RawEdgeOfCall) => ret.v = MAX_EDGE_CALC
        /\ (RLe(RNeg(MAX_EDGE_CALC), RawEdgeOfCall) /\ RLe(RawEdgeOfCall, MAX_EDGE_CALC))
              => ret.v = RawEdgeOfCall

\* A call whose raw edge is above the cap has returned the cap.
C4_Witness ==
    /\ EdgeReturned
    /\ RLt(MAX_EDGE_CALC, RawEdgeOfCall)
    /\ ret.v = MAX_EDGE_CALC

C6_FairProbabilities ==
    /\ (call.fn = "devig_pinnacle_odds" /\ ret.st = "returned") =>
          /\ InOpenUnit(ret.v[1]) /\ InOpenUnit(ret.v[2])
          /\ RAdd(ret.v[1], ret.v[2]) = R(1)
    /\ (call.fn = "calculate_fair_value" /\ ret.st = "returned") =>
          /\ InOpenUnit(ret.v.fair_prob1) /\ InOpenUnit(ret.v.fair_prob2)
          /\ RAdd(ret.v.fair_prob1, ret.v.fair_prob2) = R(1)

\* calculate_fair_value has returned for a vigged pair (hold > 0) whose
\* sides differ, and the fair probabilities differ from the implied ones.
C6_Witness ==
    /\ call.fn = "calculate_fair_value" /\ ret.st = "returned"
    /\ call.odds1 # call.odds2
    /\ RLt(R(0), ret.v.hold)
    /\ ret.v.fair_prob1 # calculate_implied_probability(R(call.odds1))
    /\ RAdd(ret.v.fair_prob1, ret.v.fair_prob2) = R(1)

ConsensusCalled == call.fn = "calculate_consensus_line" /\ ret.st # "pending"

\* The supplied books that are present in the weight table.
QualifyingBooks(bookmakers) ==
    IF bookmakers.py = "dict" THEN DOMAIN bookmakers.items \cap DOMAIN book_weights
    ELSE {i \in 1..Len(bookmakers.elems) : bookmakers.elems[i].key \in DOMAIN book_weights}

\* C11: calculate_consensus_line returns (None, None, None) whenever fewer
\* than MIN_BOOKS_FOR_CONSENSUS of the supplied books are present in the
\* weight table.
C11_TooFewBooks ==
    (ConsensusCalled
       /\ Cardinality(QualifyingBooks(call.bookmakers)) < MIN_BOOKS_FOR_CONSENSUS)
        => ret = Returned(NoConsensus)

\* Two books that quote both sides were supplied, one of them outside the
\* weight table, and the call returned (None, None, None).
C11_Witness ==
    /\ ConsensusCalled
    /\ call.bookmakers.py = "dict"
    /\ DOMAIN call.bookmakers.items = {"fanduel", "caesars"}
    /\ \A k \in DOMAIN call.bookmakers.items :
          \A o \in Range(call.bookmakers.items[k].markets[1].outcomes) : o.price # 0
    /\ ret = Returned(NoConsensus)

\* The cases of C12 for a call on a dict: too few books of the weight
\* table, no such book with a price on both sides, or a quote further than
\* MAX_PROB_DIFF from the weighted average on both sides.
C12_DictCases(prop_type, books) ==
    \/ Cardinality(DOMAIN books \cap DOMAIN book_weights) < MIN_BOOKS_FOR_CONSENSUS
    \/ \A k \in DOMAIN books \cap DOMAIN book_weights :
          \E o \in Range(books[k].markets[1].outcomes) : o.price = 0
    \/ /\ RLt(MAX_PROB_DIFF,
              ConsensusDetail(<<"X">>, "player_points", prop_type, 11, books).max_main_diff)
       /\ RLt(MAX_PROB_DIFF,
              ConsensusDetail(<<"X">>, "player_points", prop_type, 11, books).max_opp_diff)

\* An outcome the outcome loop skipped for want of a consensus: no book was
\* compared for it, and if the market has a next outcome the loop went on to
\* it (or is about to).
C12_Skipped(i) ==
    LET e == outcome_log[i]
    IN  /\ \A c \in Range(book_log) :
              ~(c.run = e.run /\ c.market = e.market /\ c.outcome = e.outcome)
        /\ e.outcome < Len(reference_odds.markets[e.market].outcomes) =>
              IF i < Len(outcome_log)
              THEN /\ outcome_log[i + 1].run = e.run
                   /\ outcome_log[i + 1].market = e.market
                   /\ outcome_log[i + 1].outcome = e.outcome + 1
              ELSE pc = "outcomes" /\ run = e.run /\ mi = e.market /\ oi = e.outcome

\* C12: calculate_consensus_line never raises: every call returns, and it
\* returns (None, None, None) on too few books, on no book with a two-sided
\* quote, on excessive disagreement on both sides and on an internal error
\* (a list of bookmakers); and process_player_props skips an outcome whose
\* consensus is (None, None, None) and continues with the next outcome.
C12_Sentinel ==
    /\ ConsensusCalled =>
          /\ ret.st = "returned"
          /\ call.bookmakers.py = "list" => ret.v = NoConsensus
          /\ (call.bookmakers.py = "dict"
                /\ C12_DictCases(call.prop_type, call.bookmakers.items))
                => ret.v = NoConsensus
    /\ \A i \in 1..Len(outcome_log) :
          outcome_log[i].result = "no_consensus" => C12_Skipped(i)

\* A call of process_player_props in consensus mode has ended in which two
\* consecutive outcomes of a market were skipped for want of a consensus.
C12_Witness ==
    /\ Done /\ use_consensus
    /\ \E i \in 1..(Len(outcome_log) - 1) :
          /\ outcome_log[i].result = "no_consensus"
          /\ outcome_log[i + 1].result = "no_consensus"
          /\ outcome_log[i + 1].run = outcome_log[i].run
          /\ outcome_log[i + 1].market = outcome_log[i].market
          /\ outcome_log[i + 1].outcome = outcome_log[i].outcome + 1

C14_RoundTrip ==
    (call.fn = "round_trip" /\ ret.st # "pending") =>
        /\ ret.st = "returned"
        /\ Abs(ret.v - call.odds) <= 1

\* The round trip of the negative price -10000 has returned -10000.
C14_Witness ==
    /\ call.fn = "round_trip" /\ ret.st = "returned"
    /\ call.odds = -10000
    /\ ret.v = -10000

\* C15: american_to_decimal returns 1 + price/100 for a positive price and
\* 1 - 100/price for a negative one, and for price 0 it fails with the
\* dedicated InvalidPriceError, not with another error and not with a value.
C15_InvalidPriceError ==
    (call.fn = "american_to_decimal" /\ ret.st # "pending") =>
        IF call.odds = 0 THEN ret = Raised("InvalidPriceError")
        ELSE IF call.odds > 0 THEN ret = Returned(Norm(100 + call.odds, 100))
        ELSE ret = Returned(Norm(call.odds - 100, call.odds))

\* C16: prob_to_american fails whenever the probability is <= 0 or >= 1
\* (whatever the error raised is called), and for a probability strictly
\* inside (0, 1) it returns a negative price when the probability is at
\* least 1/2 and a positive price otherwise.
C16_InvalidProbability ==
    (call.fn = "prob_to_american" /\ ret.st # "pending") =>
        IF RLe(call.prob, R(0)) \/ RLe(R(1), call.prob) THEN ret.st = "raised"
        ELSE /\ ret.st = "returned"
             /\ IF RLe(<<1, 2>>, call.prob) THEN ret.v < 0 ELSE ret.v > 0

\* C17: whenever calculate_implied_probability (or american_to_prob)
\* returns a value, the value lies strictly between 0 and 1: it is
\* 100/(price+100) for a positive price and |price|/(|price|+100) for a
\* negative one, and no price, 0 included, is mapped to the probability 0.
C17_ImpliedProbabilityRange ==
    (call.fn \in {"calculate_implied_probability", "american_to_prob"}
       /\ ret.st = "returned") =>
        /\ InOpenUnit(ret.v)
        /\ call.odds > 0 => ret.v = Norm(100, call.odds + 100)
        /\ call.odds < 0 => ret.v = Norm(-call.odds, 100 - call.odds)

\* The stake the Kelly formula of C18 gives for the call: p = edge + implied
\* probability, b = decimal odds - 1, f = (b*p - (1-p))/b (0 when b <= 0),
\* percentage = clamp(f * fraction, MIN_UNIT_PCT, MAX_UNIT_PCT),
\* units = percentage / MIN_UNIT_PCT, dollars = units * BANKROLL * MIN_UNIT_PCT.
C18_Formula ==
    LET implied == IF call.odds > 0 THEN Norm(100, call.odds + 100)
                   ELSE Norm(-call.odds, 100 - call.odds)
        decimal == IF call.odds > 0 THEN Norm(100 + call.odds, 100)
                   ELSE Norm(call.odds - 100, call.odds)
        p == RAdd(call.edge, implied)
        b == RSub(decimal, R(1))
        f == IF RLe(b, R(0)) THEN R(0) ELSE RDiv(RSub(RMul(b, p), RSub(R(1), p)), b)
        scaled == RMul(f, call.kelly_fraction)
        pct == IF RLt(scaled, MIN_UNIT_PCT) THEN MIN_UNIT_PCT
               ELSE IF RLt(MAX_UNIT_PCT, scaled) THEN MAX_UNIT_PCT ELSE scaled
        units == RDiv(pct, MIN_UNIT_PCT)
    IN  <<units, RMul(RMul(units, BANKROLL), MIN_UNIT_PCT)>>

\* The scenario of C18: edge 0.05, price -110, Kelly fraction 0.25.
C18_Scenario ==
    /\ KellyReturned
    /\ call.edge = <<1, 20>> /\ call.odds = -110 /\ call.kelly_fraction = <<1, 4>>

\* C18 as stated: kelly_criterion returns the stake of the formula, and in
\* the scenario that is about 2.56 units and 25.6 dollars (to the precision
\* the figures are given with).
C18_Original ==
    /\ KellyReturned => ret.v = C18_Formula
    /\ C18_Scenario =>
          /\ RLe(RAbs(RSub(ret.v[1], <<64, 25>>)), <<1, 100>>)
          /\ RLe(RAbs(RSub(ret.v[2], <<128, 5>>)), <<1, 10>>)

\* C18 as amended: kelly_criterion returns the stake of the formula, and in
\* the scenario that is 2.625 units and 26.25 dollars.
C18_KellyFormula ==
    /\ KellyReturned => ret.v = C18_Formula
    /\ C18_Scenario => ret.v = <<(<<21, 8>>), (<<105, 4>>)>>

\* The call of the scenario has returned 2.625 units.
C18_Witness == C18_Scenario /\ ret.v[1] = <<21, 8>>

\* The detail of the consensus of the call's books.
DetailOfCall ==
    ConsensusDetail(<<"X">>, "player_points", call.prop_type, 11, call.bookmakers.items)

ConsensusOnDict == ConsensusCalled /\ call.bookmakers.py = "dict"

\* C21: given enough books of the weight table and at least one of them
\* with both prices, calculate_consensus_line returns (None, None, None) if
\* and only if both the largest main-side deviation and the largest
\* opposing-side deviation from the weighted averages exceed MAX_PROB_DIFF;
\* if at most one of them does, the consensus is returned.
C21_BothSidesRule ==
    (ConsensusOnDict
       /\ Cardinality(DetailOfCall.valid_books) >= MIN_BOOKS_FOR_CONSENSUS
       /\ DetailOfCall.available_books # {})
        => (ret.v = NoConsensus
              <=> (RLt(MAX_PROB_DIFF, DetailOfCall.max_main_diff)
                     /\ RLt(MAX_PROB_DIFF, DetailOfCall.max_opp_diff)))

\* A consensus was returned although the main side deviates by more than
\* MAX_PROB_DIFF, the opposing side not.
C21_Witness ==
    /\ ConsensusOnDict
    /\ ret.v.ok
    /\ RLt(MAX_PROB_DIFF, DetailOfCall.max_main_diff)
    /\ ~RLt(MAX_PROB_DIFF, DetailOfCall.max_opp_diff)

\* The (main, opposing) prices of a book of the call.
C22_Quote(book) ==
    IF call.prop_type = "Over"
    THEN <<book.markets[1].outcomes[1].price, book.markets[1].outcomes[2].price>>
    ELSE <<book.markets[1].outcomes[2].price, book.markets[1].outcomes[1].price>>

\* The books C22 lets contribute: in the configured table WEIGHTED_BOOKS,
\* with a main and an opposing price.
C22_Contributing ==
    {k \in DOMAIN call.bookmakers.items \cap DOMAIN WEIGHTED_BOOKS :
        /\ C22_Quote(call.bookmakers.items[k])[1] # 0
        /\ C22_Quote(call.bookmakers.items[k])[2] # 0}

\* sum(prob_i * weight_i) / sum(weight_i) over the contributing books, the
\* weights from WEIGHTED_BOOKS.
C22_Weighted(side) ==
    RDiv(RSum(C22_Contributing,
              [k \in C22_Contributing |->
                  RMul(american_to_prob(C22_Quote(call.bookmakers.items[k])[side]),
                       WEIGHTED_BOOKS[k])]),
         RSum(C22_Contributing, [k \in C22_Contributing |-> WEIGHTED_BOOKS[k]]))

\* C22: a consensus that calculate_consensus_line returns is the one of the
\* books that are in the configured weight table WEIGHTED_BOOKS and quote
\* both sides: their number, and for each side the price of the average of
\* their probabilities weighted by WEIGHTED_BOOKS.
C22_ConfiguredWeights ==
    (ConsensusOnDict /\ ret.v.ok) =>
        /\ ret.v.n = Cardinality(C22_Contributing)
        /\ ret.v.main = prob_to_american(C22_Weighted(1))
        /\ ret.v.opp = prob_to_american(C22_Weighted(2))

\* The implied probability of an integer price, as the specification gives
\* it.
ImpliedOf(price) ==
    IF price > 0 THEN Norm(100, price + 100) ELSE Norm(-price, 100 - price)

\* C23: the hold is never negative: for every pair of nonzero prices the
\* hold of calculate_fair_value, the hold percentage of process_odds and the
\* hold of calculate_hold are max(0, prob_a + prob_b - 1) (times 100 for
\* the percentage).
C23_HoldNonNegative ==
    (call.fn \in {"calculate_fair_value", "calculate_hold", "process_odds"}
       /\ ret.st = "returned") =>
        LET hold == RMax(R(0), RSub(RAdd(ImpliedOf(call.odds1), ImpliedOf(call.odds2)), R(1)))
        IN  CASE call.fn = "calculate_fair_value" -> ret.v.hold = hold
              [] call.fn = "calculate_hold" -> ret.v = hold
              [] call.fn = "process_odds" -> ret.v[4] = RMul(hold, R(100))

\* C27: a consensus that calculate_consensus_line returns has at least
\* MIN_BOOKS_FOR_CONSENSUS contributing books.
C27_EnoughContributors ==
    (ConsensusCalled /\ ret.v.ok) => ret.v.n >= MIN_BOOKS_FOR_CONSENSUS

\* C30: for every nonzero bet price and fair price the two values of
\* calculate_ev are equal, and equal to (fair_prob / bet_prob - 1) * 100.
C30_EvEqualsEdge ==
    (call.fn = "calculate_ev" /\ ret.st # "pending") =>
        /\ ret.st = "returned"
        /\ ret.v[1] = ret.v[2]
        /\ ret.v[1] = RMul(RSub(RDiv(calculate_implied_probability(call.fair_odds),
                                     ImpliedOf(call.bet_odds)), R(1)), R(100))

\* calculate_ev has returned for a negative bet price with a positive edge.
C30_Witness ==
    /\ call.fn = "calculate_ev" /\ ret.st = "returned"
    /\ call.bet_odds < 0
    /\ RPos(ret.v[1])
    /\ ret.v[1] = ret.v[2]

---------------------------------------------------------------------------
(* Claims about process_player_props, checked under SpecProps.  What a     *)
(* claim expects of an event is computed here from the event alone, by the *)
(* fields the claim names (description = player, name = side, point =      *)
(* line), never by the scanner's own matching.                             *)

ThisRun(log) == SelectSeq(log, LAMBDA e : e.run = run)
PinnacleBooks == {b \in Range(props_data.bookmakers) : b.key = "pinnacle"}
OtherBooks == {b \in Range(props_data.bookmakers) : b.key # "pinnacle"}

\* A feed without defects: every entry of every outcomes array is an object
\* with a description, a name, a point and a price, and the event carries
\* no commence_time.
WellFormed ==
    /\ props_data.commence_time = ""
    /\ \A b \in Range(props_data.bookmakers) : \A m \in Range(b.markets) :
          \A o \in Range(m.outcomes) :
             o.dict /\ o.description # << >> /\ o.name # "" /\ o.point # 0 /\ o.price # 0

\* An outcome in the format of claim C2.
Parsed(o) ==
    o.dict /\ Len(o.description) = 1 /\ o.name \in {"Over", "Under"}
           /\ o.point # 0 /\ o.price # 0
OtherSide(o, q) ==
    Parsed(q) /\ q.description = o.description /\ q.point = o.point /\ q.name # o.name
SameOutcome(o, q) ==
    Parsed(q) /\ q.description = o.description /\ q.point = o.point /\ q.name = o.name

\* The alerts C2 expects of the event: a pinnacle outcome o with its other
\* side u, and another book's quote q of the same outcome whose edge against
\* the fair value of (o, u) the filter accepts.
C2_ExpectedOfBook(m, o, u, b) ==
    UNION {
        {[book |-> b.key, market |-> m.key, player |-> o.description,
          prop_type |-> o.name, line_value |-> o.point, price |-> q.price] :
            q \in {x \in Range(bm.outcomes) :
                     /\ SameOutcome(o, x)
                     /\ is_plus_ev(RDiv(process_odds(R(x.price), R(o.price), R(u.price))[1],
                                        R(100)),
                                   MIN_EDGE_THRESHOLD, MAX_EDGE_THRESHOLD)}} :
        bm \in {x \in Range(b.markets) : x.key = m.key}}

C2_ExpectedOfOutcome(m, o) ==
    UNION {UNION {C2_ExpectedOfBook(m, o, u, b) : b \in OtherBooks} :
           u \in {x \in Range(m.outcomes) : OtherSide(o, x)}}

C2_Expected ==
    UNION {UNION {C2_ExpectedOfOutcome(m, o) : o \in {x \in Range(m.outcomes) : Parsed(x)}} :
           m \in UNION {Range(p.markets) : p \in PinnacleBooks}}

AlertFor(x) ==
    \E i \in 1..Len(alerts) :
        /\ alerts[i].run = run
        /\ alerts[i].book = x.book /\ alerts[i].market = x.market
        /\ alerts[i].player = x.player /\ alerts[i].prop_type = x.prop_type
        /\ alerts[i].line_value = x.line_value /\ alerts[i].price = x.price
        /\ <<alerts[i].units, alerts[i].dollars>> =
              kelly_criterion(RDiv(alerts[i].edge_pct, R(100)), R(x.price), KELLY_FRACTION)

\* C2: when the processing of an event ends, for every outcome that pinnacle
\* quotes on both sides in the format description = player, name =
\* Over/Under, point = line, every other book whose quote of the same
\* outcome has an edge in (MIN_EDGE_THRESHOLD, MAX_EDGE_THRESHOLD] has been
\* sized by kelly_criterion and alerted to the channel, as long as the
\* event has no more such quotes than the per-event cap allows (and the
\* feed has no defect).
C2_AcceptedEdgesAlerted ==
    (Done /\ WellFormed /\ Cardinality(C2_Expected) <= MAX_ALERTS_PER_EVENT)
        => \A x \in C2_Expected : AlertFor(x)

\* A Python dict of the event's bookmakers by key.
BooksByKey ==
    [k \in {b.key : b \in Range(props_data.bookmakers)} |->
        CHOOSE b \in Range(props_data.bookmakers) : b.key = k]

\* The premise of C3 for an outcome of the reference book: at least
\* MIN_BOOKS_FOR_CONSENSUS books of the weight table quote both of its
\* sides, and no quote deviates from the weighted average by more than
\* MAX_PROB_DIFF.
C3_Premise(m, o) ==
    /\ PinnacleBooks = {}
    /\ WellFormed
    /\ Parsed(o)
    /\ LET d == ConsensusDetail(o.description, m.key, o.name, o.point, BooksByKey)
       IN  /\ Cardinality(d.available_books) >= MIN_BOOKS_FOR_CONSENSUS
           /\ RLe(d.max_main_diff, MAX_PROB_DIFF)
           /\ RLe(d.max_opp_diff, MAX_PROB_DIFF)

\* C3: with pinnacle absent, an outcome that satisfies the premise is never
\* skipped as 'no consensus': its pass through the outcome loop ends with
\* reference prices from calculate_consensus_line and the comparison of the
\* other books.
C3_ConsensusUsed ==
    \A i \in 1..Len(outcome_log) :
        LET e == outcome_log[i]
            m == reference_odds.markets[e.market]
            o == m.outcomes[e.outcome]
        IN  C3_Premise(m, o) => e.result = "compared"

\* An opportunity without the run it was found in and without its fair-value
\* delta.
Strip(o) ==
    [book |-> o.book, market |-> o.market, player |-> o.player,
     prop_type |-> o.prop_type, line_value |-> o.line_value, price |-> o.price,
     fair_value |-> o.fair_value, edge_pct |-> o.edge_pct, ev_pct |-> o.ev_pct,
     units |-> o.units, dollars |-> o.dollars]
OppsOfRun(n) == {o \in Range(opportunities) : o.run = n}

\* C7: when an event has been processed a second time on the same snapshot,
\* the second run has accepted the same opportunities as the first (same
\* book, outcome, offered price, fair value, edge, EV, units, dollars), and
\* every opportunity of the second run carries a fair-value delta of 0.
C7_RepeatIdempotent ==
    (Done /\ run >= 2 /\ WellFormed) =>
        /\ {Strip(o) : o \in OppsOfRun(run)} = {Strip(o) : o \in OppsOfRun(run - 1)}
        /\ \A o \in OppsOfRun(run) : o.fv_change = R(0)

\* C8: in one call of process_player_props the number of alerts sent, as
\* counted by alerts_sent and as delivered to the channel, never exceeds
\* MAX_ALERTS_PER_EVENT.
C8_AlertCap ==
    /\ stats.alerts_sent <= MAX_ALERTS_PER_EVENT
    /\ Len(ThisRun(alerts)) <= MAX_ALERTS_PER_EVENT

\* A call has ended in which more comparisons were accepted than the cap
\* allows alerts.
C8_Witness ==
    /\ Done
    /\ Len(ThisRun(opportunities)) > MAX_ALERTS_PER_EVENT
    /\ stats.alerts_sent <= MAX_ALERTS_PER_EVENT

\* C9: no exception of an outcome or of a book comparison aborts the scan of
\* the event: when the call ends, no exception has reached the outer
\* handler, every outcome of every market of the reference book has been
\* through the outcome loop, and every book has been through the book loop
\* of every outcome that reached the comparison.
C9_NoAbort ==
    Done =>
        /\ ~escaped
        /\ \A m \in 1..Len(reference_odds.markets) :
             \A o \in 1..Len(reference_odds.markets[m].outcomes) :
                \E e \in Range(ThisRun(outcome_log)) : e.market = m /\ e.outcome = o
        /\ \A e \in Range(ThisRun(outcome_log)) :
             e.result = "compared" =>
                \A b \in Range(props_data.bookmakers) :
                   \E c \in Range(ThisRun(book_log)) :
                      c.market = e.market /\ c.outcome = e.outcome /\ c.book = b.key

\* C19: the edge of every accepted comparison is
\* decimal_odds(offered) * fair_probability - 1 capped at MAX_EDGE_CALC (the
\* fair probability being that of the fair value compared against), so no
\* accepted opportunity carries an edge above MAX_EDGE_CALC.
C19_ScannerEdgeCapped ==
    \A o \in Range(opportunities) :
        /\ RLe(RDiv(o.edge_pct, R(100)), MAX_EDGE_CALC)
        /\ RDiv(o.edge_pct, R(100)) =
              RMin(RSub(RMul(american_to_decimal(R(o.price)),
                             calculate_implied_probability(o.fair_value)), R(1)),
                   MAX_EDGE_CALC)

\* Pinnacle quotes both sides of outcome o in its market of key k.
C20_PinnacleQuotes(k, o) ==
    \E p \in PinnacleBooks : \E m \in Range(p.markets) :
        /\ m.key = k
        /\ \E q, u \in Range(m.outcomes) :
              /\ q.dict /\ q.description = o.description /\ q.point = o.point
              /\ q.name = o.name /\ q.price # 0
              /\ u.dict /\ u.description = o.description /\ u.point = o.point
              /\ u.name \in {"Over", "Under"} \ {o.name} /\ u.price # 0

\* A consensus of at least MIN_BOOKS_FOR_CONSENSUS books that quote both sides.
C20_ConsensusAvailable(d) ==
    /\ Cardinality(d.available_books) >= MIN_BOOKS_FOR_CONSENSUS
    /\ ConsensusResult(d).ok

\* The premise of C20 for an outcome another book quotes: pinnacle is among
\* the event's bookmakers but does not quote both sides of it, and the
\* consensus of the event's books is available for it.
C20_Premise(k, o) ==
    /\ PinnacleBooks # {}
    /\ o.dict /\ o.name \in {"Over", "Under"} /\ o.point # 0 /\ o.description # << >>
    /\ ~C20_PinnacleQuotes(k, o)
    /\ C20_ConsensusAvailable(
          ConsensusDetail(o.description, k, o.name, o.point, BooksByKey))

C20_Evaluated(k, o) ==
    \E e \in Range(ThisRun(outcome_log)) :
        /\ e.result = "compared"
        /\ reference_odds.markets[e.market].key = k
        /\ reference_odds.markets[e.market].outcomes[e.outcome].description = o.description
        /\ reference_odds.markets[e.market].outcomes[e.outcome].name = o.name
        /\ reference_odds.markets[e.market].outcomes[e.outcome].point = o.point

\* C20: the source of the fair value is chosen per outcome: when the call
\* ends, every outcome that other books quote, that pinnacle (present in the
\* event) does not quote on both sides and for which a consensus is
\* available has been given reference prices and compared.
C20_PerOutcomeSource ==
    Done =>
        \A b \in OtherBooks : \A m \in Range(b.markets) : \A o \in Range(m.outcomes) :
            C20_Premise(m.key, o) => C20_Evaluated(m.key, o)

\* The alert cap of lines 579-581 is never reached: no call ever counts an
\* alert as sent (see C2 and C8), so the case C24 is about does not happen.
C24_CapNeverReached == stats.alerts_sent = 0

\* The fair value process_odds computes for the reference prices of the
\* outcome being compared.
FairValueOfRef ==
    calculate_fair_value(R(ref.pin_price), R(ref.pin_opposing_price)).fair_odds1

\* A step of the book loop that has compared a book (lines 709-712).
ComparedStep == stats'.edges_calculated = stats.edges_calculated + 1

\* C26: pinnacle_odds_history only grows: no step removes an event or a key
\* of its entry; it changes only in a book comparison, and every book
\* comparison, accepted or not, leaves the fair value just computed in the
\* entry of the event (creating the entry if the event had none); the first
\* comparison of an event without an entry gives a fair-value delta of 0.
C26_HistoryStep ==
    /\ DOMAIN pinnacle_odds_history \subseteq DOMAIN pinnacle_odds_history'
    /\ \A e \in DOMAIN pinnacle_odds_history :
          DOMAIN pinnacle_odds_history[e] \subseteq DOMAIN pinnacle_odds_history'[e]
    /\ pinnacle_odds_history' # pinnacle_odds_history => ComparedStep
    /\ ComparedStep =>
          /\ event_id \in DOMAIN pinnacle_odds_history'
          /\ "fair_value" \in DOMAIN pinnacle_odds_history'[event_id]
          /\ pinnacle_odds_history'[event_id].fair_value = FairValueOfRef
          /\ (event_id \notin DOMAIN pinnacle_odds_history
                /\ opportunities' # opportunities)
                => opportunities'[Len(opportunities')].fv_change = R(0)

C26_HistoryOnlyGrows == [][C26_HistoryStep]_vars

\* A comparison that was rejected has overwritten the fair value an earlier,
\* accepted comparison had stored.
C26_Witness ==
    /\ pc = "books" /\ bi >= 1
    /\ book_log # << >>
    /\ book_log[Len(book_log)].result = "rejected"
    /\ event_id \in DOMAIN pinnacle_odds_history
    /\ pinnacle_odds_history[event_id].fair_value = FairValueOfRef
    /\ opportunities # << >>
    /\ opportunities[Len(opportunities)].fair_value # FairValueOfRef

---------------------------------------------------------------------------
(* Claims about scan_for_ev, checked under SpecScan.                       *)

\* C10: no provider fetch, of the events or of an event's props, is issued
\* while remaining_requests <= 0: whatever fetch was issued last, the budget
\* was positive when it was issued.
C10_NoFetchWhenExhausted ==
    fetch.kind # "none" => fetch.remaining > 0

\* A step that issues the props fetch of an event.
PropsFetchStep ==
    /\ scan_pc = "events" /\ ei < Len(events)
    /\ events[ei + 1] # "no_id"
    /\ ei' = ei + 1

\* A step of the started scan loop (not one of on_ready).
LoopStep == scan_pc # "idle" /\ tasks' = tasks

\* C25: scan_for_ev never ends and no exception leaves it.  Every step of
\* the started loop leaves it at the head of the while loop or in the for
\* loop; a cycle ends with a sleep of 60 s (3600 s when the budget is used
\* up); the for loop is entered only with a nonempty events list, so a
\* missing channel and a failed or empty events fetch are followed by no
\* props fetch in that cycle; a props fetch is issued only from the for
\* loop; and an exception in the cycle (an event on which
\* process_player_props raises) ends the cycle with the 60 s sleep, the
\* events after it not fetched.
C25_Step ==
    /\ scan_pc # "idle" => scan_pc' \in {"top", "events"}
    /\ (LoopStep /\ scan_pc' = "top") => slept' \in {60, 3600}
    /\ (scan_pc = "top" /\ scan_pc' = "events") =>
          /\ events' # << >>
          /\ fetch'.kind = "events"
          /\ ei' = 0
    /\ (LoopStep /\ scan_pc = "top") => (fetch' = fetch \/ fetch'.kind = "events")
    /\ ei' # ei => (PropsFetchStep \/ scan_pc = "top" \/ events[ei + 1] = "no_id")
    /\ (PropsFetchStep /\ events[ei + 1] = "raises") =>
          /\ scan_pc' = "top"
          /\ slept' = 60
          /\ remaining_requests' = remaining_requests

C25_LoopNeverEnds == [][C25_Step]_vars

\* An exception has ended a cycle before the last event of the list: the
\* loop is back at its head after the 60 s sleep.
C25_Witness ==
    /\ scan_pc = "top"
    /\ slept = 60
    /\ ei >= 1 /\ ei < Len(events)
    /\ events[ei] = "raises"

\* The provider fetches issued since remaining_requests was last set to
\* CALLS_PER_MONTH: those that decremented it and those that did not.
FetchesSinceReset == CALLS_PER_MONTH - remaining_requests + uncounted

\* C28: between two resets of remaining_requests the scan loop issues at most
\* CALLS_PER_MONTH provider fetches, successful or failed, and
\* remaining_requests is never below 0.
C28_BudgetRespected ==
    /\ FetchesSinceReset <= CALLS_PER_MONTH
    /\ remaining_requests >= 0

\* C29: at most one scan_for_ev task exists at any time, however often
\* on_ready fires.
C29_SingleScanTask == tasks <= 1

====
